---- MODULE Spec2Model ----
(***************************************************************************)
(* db_toolkit: the batched insert of MongoDb (mongo/MongoDb.py) and the    *)
(* configuration file loader (misc/config_reader.py).                      *)
(*                                                                         *)
(* Strings are sequences of atoms.  An atom stands for a run of            *)
(* characters of one class: a word (a run of \w characters), " " (white    *)
(* space), "=" (the separator), "#", "-" (any other punctuation) and "\n". *)
(* Documents are numbered 0..n-1 and the identifier the server gives       *)
(* document k is k.                                                        *)
(***************************************************************************)
EXTENDS Integers, Sequences, FiniteSets, TLC

VARIABLES
    fields,            \* MongoDb.__dict__ restricted to KEYS
    pc,                \* position of insert_many
    n,                 \* len(entries)
    dbCount,           \* documents in the collection (count_documents({}))
    initial_num_docs,  \* MongoDb.py:319
    err_index,         \* MongoDb.py:326
    err_code,          \* MongoDb.py:327
    batch_size,        \* MongoDb.py:335
    idx,               \* loop variable of MongoDb.py:342
    count,             \* MongoDb.py:340, 345
    num_docs,          \* MongoDb.py:350
    inserted_ids,      \* MongoDb.py:339, 344
    result,            \* MongoDb.py:316, 321, 343, 355
    raised,            \* the error insert_many raised, "none" while it has not
    calls,             \* history: the slices [lo, hi) given to collection.insert_many
    pauses,            \* history: number of sleep() calls
    inserted,          \* history: documents of entries now in the collection
    bulkOutcome,       \* history: how the whole-batch insert ended
    entered,           \* history: the branch of MongoDb.py:333 was taken
    others,            \* history: writes of other clients to the collection
    file,              \* content of the configuration source
    pos,               \* its stream position
    loads,             \* history: number of _load_cfg_file calls
    config,            \* mapping returned by the last load_cfg_file
    cfgErr,            \* error raised by the last load_cfg_file
    prevConfig,        \* history: mapping returned by the load before
    prevFields,        \* history: fields after the load before
    notices,           \* history: line numbers of the logging.info calls of the last load
    kwargs,            \* keyword arguments of the last make_db_link call
    link,              \* what the last make_db_link call returned or raised
    backend,           \* the class of the object: "mongo", "postgres", "cosmos"
    test,              \* the test flag the object was constructed with
    client,            \* self.client / self.connection: "absent", "None" or "open"
    objErr,            \* the error the last operation on the object raised
    lastOp,            \* history: the last operation on the object
    connects,          \* history: the vendor connect calls
    partition_key,     \* CosmosDb.partition_key: "None" or "set"
    returned           \* what the last operation on the object returned

insVars == <<pc, n, dbCount, initial_num_docs, err_index, err_code, batch_size,
             idx, count, num_docs, inserted_ids, result, raised, calls, pauses,
             inserted, bulkOutcome, entered, others>>
cfgVars == <<file, pos, loads, config, cfgErr, prevConfig, prevFields, notices>>
linkVars == <<kwargs, link>>
objVars == <<backend, test, client, objErr, lastOp, connects, partition_key, returned>>
vars == <<fields, insVars, cfgVars, linkVars, objVars>>

(***************************************************************************)
(* Bounds                                                                  *)
(***************************************************************************)
MaxDocs == 12
MaxOthers == 1
MaxInitialDocs == 1
MaxFileLen == 5
MaxLoads == 2

(***************************************************************************)
(* MongoDb class constants                                                 *)
(***************************************************************************)
REQUIRED_KEYS == {"server"}
BASE_KEYS == REQUIRED_KEYS \cup {"username", "password", "port", "dbname", "collection"}
QUERY_KEYS == {"auth_source", "ssl", "replica_set", "max_idle_time_ms", "app_name",
               "retry_writes"}
KEYS == BASE_KEYS \cup QUERY_KEYS

None == <<"None">>

CapacityExceeded == 16500
\* any other code a first write error may carry
OtherCode == CapacityExceeded + 1
ErrCodes == {CapacityExceeded, OtherCode}

AzureMarker == "mongo.cosmos.azure"
Servers == { <<"localhost">>, <<"acct", ".", "mongo.cosmos.azure", ".", "com">> }

\* 'mongo.cosmos.azure' in self['server']
Contains(s, atom) == \E k \in 1..Len(s) : s[k] = atom

Min(a, b) == IF a < b THEN a ELSE b

(***************************************************************************)
(* Values of inserted_ids                                                  *)
(***************************************************************************)
IdNone == [kind |-> "None", ids |-> <<>>]
IdOne(k) == [kind |-> "id", ids |-> <<k>>]
IdList(s) == [kind |-> "list", ids |-> s]

\* identifiers of the documents lo..hi-1, as the vendor's result lists them
IdsOf(lo, hi) == [k \in 1..(hi - lo) |-> IdOne(lo + k - 1)]

EmptyResult == [inserted_ids |-> <<>>, acknowledged |-> FALSE]

(***************************************************************************)
(* insert_many                                                             *)
(***************************************************************************)
\* get_collection: None without a connection, a dbname or a collection
CollectionAvailable(conn, f) ==
    conn /\ f["dbname"] # None /\ f["collection"] # None

\* err_code == 16500 and 'mongo.cosmos.azure' in self['server']
ShouldRetryAnyServer(code, server) == code = CapacityExceeded
ShouldRetryAnyCode(code, server) == TRUE
ShouldRetry(code, server) ==
    code = CapacityExceeded /\ Contains(server, AzureMarker)

\* int(err_index * 0.25)
BatchSize(i) == i \div 4

\* range(err_index, len(entries), batch_size): the next value of idx
NextIdxSkip(i, b) == i + b + 1
NextIdxHalfStep(i, b) == i + (b + 1) \div 2
NextIdx(i, b) == i + b

\* entries[idx:idx + batch_size]
SliceEnd(i, b, len) == Min(i + b, len)

\* num_docs != len(entries)
CountMismatchLax(num, len) == num < len
CountMismatch(num, len) == num # len

\* except BulkWriteError as bweb: ... raise
OnChunkBulkWriteErrorHalve(code, b) ==
    IF code = CapacityExceeded /\ b > 1
    THEN [pc |-> "loop", batch_size |-> b \div 2, raised |-> "none"]
    ELSE [pc |-> "raised", batch_size |-> b, raised |-> "BulkWriteError"]
OnChunkBulkWriteError(code, b) ==
    [pc |-> "raised", batch_size |-> b, raised |-> "BulkWriteError"]

(***************************************************************************)
(* load_cfg_file (misc/config_reader.py)                                   *)
(***************************************************************************)
Words == {"server", "PORT"}
Atoms == Words \cup {" ", "=", "#", "-", "\n"}

\* str.lower() of a word
Lower(a) ==
    IF a = "PORT" THEN "port"
    ELSE IF a \in {"TRUE", "True"} THEN "true"
    ELSE IF a \in {"FALSE", "False"} THEN "false"
    ELSE a

\* the characters str.strip() removes
IsSpace(a) == a \in {" ", "\n"}

RECURSIVE LStrip(_)
LStrip(s) == IF s # <<>> /\ IsSpace(s[1]) THEN LStrip(Tail(s)) ELSE s

RECURSIVE RStrip(_)
RStrip(s) ==
    IF s # <<>> /\ IsSpace(s[Len(s)]) THEN RStrip(SubSeq(s, 1, Len(s) - 1)) ELSE s

\* str.strip()
Strip(s) == RStrip(LStrip(s))

\* for line in cfg_file: the lines of s, each with its line end
RECURSIVE SplitLines(_)
SplitLines(s) ==
    IF s = <<>> THEN <<>>
    ELSE IF \E k \in 1..Len(s) : s[k] = "\n"
         THEN LET k == CHOOSE k \in 1..Len(s) :
                          s[k] = "\n" /\ \A j \in 1..(k - 1) : s[j] # "\n"
              IN  <<SubSeq(s, 1, k)>> \o SplitLines(SubSeq(s, k + 1, Len(s)))
         ELSE <<s>>

\* length of the longest prefix of word characters: the group (\w+)
RECURSIVE WordPrefix(_)
WordPrefix(s) == IF s # <<>> /\ s[1] \in Words THEN 1 + WordPrefix(Tail(s)) ELSE 0

\* length of the longest prefix of white space: \s*
RECURSIVE SpacePrefix(_)
SpacePrefix(s) == IF s # <<>> /\ IsSpace(s[1]) THEN 1 + SpacePrefix(Tail(s)) ELSE 0

\* re.match(r'(\w+)\s*=(.*)', line): the groups, or no match
ReMatch(line) ==
    LET w == WordPrefix(line)
        rest == SubSeq(line, w + 1, Len(line))
        sp == SpacePrefix(rest)
        after == SubSeq(rest, sp + 1, Len(rest))
    IN  IF w >= 1 /\ after # <<>> /\ after[1] = "="
        THEN [matched |-> TRUE, key |-> SubSeq(line, 1, w), value |-> Tail(after)]
        ELSE [matched |-> FALSE, key |-> <<>>, value |-> <<>>]

\* key.lower().strip()
LowerAll(s) == [k \in 1..Len(s) |-> Lower(s[k])]

\* key in keys: a run of several words is no key of KEYS
KeyName(key) == IF Len(key) = 1 THEN key[1] ELSE "<other>"

\* if key in keys
RecognizedAny(key, keys) == TRUE
Recognized(key, keys) == KeyName(key) \in keys

EmptyCfg == [k \in {} |-> <<>>]
Put(cfg, k, v) == [x \in (DOMAIN cfg) \cup {k} |-> IF x = k THEN v ELSE cfg[x]]

NoError == [kind |-> "none", line |-> 0, text |-> <<>>]
CfgError(kind, lineno, line) == [kind |-> kind, line |-> lineno, text |-> line]

\* cfg_file.seek(0, SEEK_SET)
SeekNone(p) == p
SeekStart(p) == 0

\* count += 1
NextCountEntriesOnly(cnt, line) ==
    IF line = <<>> \/ line[1] = "#" THEN cnt ELSE cnt + 1
NextCount(cnt, line) == cnt + 1

\* the loop over the lines: lines k.. of ls, count lines read, cfg gathered
\* so far, the stream at p
RECURSIVE ParseLines(_, _, _, _, _, _)
ParseLines(ls, k, cnt, cfg, p, log) ==
    IF k > Len(ls) THEN [config |-> cfg, err |-> NoError, pos |-> p, log |-> log]
    ELSE
      LET line == Strip(ls[k])
          c == NextCount(cnt, line)
          q == p + Len(ls[k])
          m == ReMatch(line)
          key == Strip(LowerAll(m.key))
          value == Strip(m.value)
          fail(kind) == [config |-> EmptyCfg, err |-> CfgError(kind, c, line), pos |-> q,
                       log |-> log]
      IN  IF line = <<>> THEN ParseLines(ls, k + 1, c, cfg, q, log)
          ELSE IF line[1] = "#" THEN ParseLines(ls, k + 1, c, cfg, q, log)
          ELSE IF ~m.matched THEN fail("Invalid configuration file entry")
          ELSE IF key = <<>> THEN fail("Missing key entry")
          ELSE IF value = <<>> THEN fail("Missing value entry")
          ELSE IF Recognized(key, KEYS)
               THEN ParseLines(ls, k + 1, c, Put(cfg, KeyName(key), value), q, log)
               ELSE ParseLines(ls, k + 1, c, cfg, q, Append(log, c))

\* load_cfg_file(cfg_file, MongoDb.KEYS) on a source holding text, at p
load_cfg_file(text, p) ==
    LET start == SeekStart(p)
    IN  ParseLines(SplitLines(SubSeq(text, start + 1, Len(text))), 1, 0, EmptyCfg, start,
                   <<>>)

\* MongoDb.__set_config
set_config(f, cfg) == [k \in KEYS |-> IF k \in DOMAIN cfg THEN cfg[k] ELSE f[k]]

CfgIdle ==
    /\ file = <<>>
    /\ pos = 0
    /\ loads = 0
    /\ config = EmptyCfg
    /\ cfgErr = NoError
    /\ prevConfig = EmptyCfg
    /\ prevFields = [k \in KEYS |-> None]
    /\ notices = <<>>

\* no make_db_link call yet
NoLink == [err |-> "none", uri |-> <<>>]
LinkIdle ==
    /\ kwargs = EmptyCfg
    /\ link = NoLink

\* no operation on the object yet
NoOp == [op |-> "none", key |-> "", kw |-> EmptyCfg, cfg |-> EmptyCfg, source |-> "none", vendor |-> "none"]
NoErr == [type |-> "none", msg |-> "none", key |-> ""]
ObjIdle ==
    /\ backend = "mongo"
    /\ test = TRUE
    /\ client = "absent"
    /\ objErr = NoErr
    /\ lastOp = NoOp
    /\ connects = <<>>
    /\ partition_key = "None"
    /\ returned = "none"

InsIdle ==
    /\ pc = "idle"
    /\ n = 0
    /\ initial_num_docs = 0
    /\ err_index = 0
    /\ err_code = 0
    /\ batch_size = 0
    /\ idx = 0
    /\ count = 0
    /\ num_docs = 0
    /\ inserted_ids = <<>>
    /\ result = EmptyResult
    /\ raised = "none"
    /\ calls = <<>>
    /\ pauses = 0
    /\ inserted = 0
    /\ bulkOutcome = "none"
    /\ entered = FALSE
    /\ others = 0

Init ==
    /\ InsIdle
    /\ CfgIdle
    /\ LinkIdle
    /\ ObjIdle
    /\ dbCount \in 0..MaxInitialDocs
    /\ \E s \in Servers, d \in {None, <<"testdb">>}, c \in {None, <<"coll">>} :
          fields = [k \in KEYS |->
                       IF k = "server" THEN s
                       ELSE IF k = "dbname" THEN d
                       ELSE IF k = "collection" THEN c
                       ELSE None]

\* insert_many(entries), up to the whole-batch insert (MongoDb.py:316-319)
Call ==
    /\ pc = "idle"
    /\ \E len \in 1..MaxDocs, conn \in BOOLEAN :
          /\ n' = len
          /\ result' = EmptyResult
          /\ IF CollectionAvailable(conn, fields)
             THEN /\ initial_num_docs' = dbCount
                  /\ pc' = "bulk"
             ELSE /\ initial_num_docs' = initial_num_docs
                  /\ pc' = "returned"
    /\ UNCHANGED <<fields, dbCount, err_index, err_code, batch_size, idx, count,
                   num_docs, inserted_ids, raised, calls, pauses, inserted,
                   bulkOutcome, entered, others, cfgVars, linkVars, objVars>>

\* collection.insert_many(entries) succeeds (MongoDb.py:321, 361)
BulkOk ==
    /\ pc = "bulk"
    /\ \E ack \in BOOLEAN :
          result' = [inserted_ids |-> IdsOf(0, n), acknowledged |-> ack]
    /\ calls' = Append(calls, [lo |-> 0, hi |-> n])
    /\ dbCount' = dbCount + n
    /\ inserted' = n
    /\ bulkOutcome' = "ok"
    /\ pc' = "returned"
    /\ UNCHANGED <<fields, n, initial_num_docs, err_index, err_code, batch_size,
                   idx, count, num_docs, inserted_ids, raised, pauses, entered,
                   others, cfgVars, linkVars, objVars>>

\* collection.insert_many(entries) raises BulkWriteError: the documents before
\* the first failing index are in the collection (MongoDb.py:322-327)
BulkWriteErr ==
    /\ pc = "bulk"
    /\ \E i \in 0..(n - 1), code \in ErrCodes :
          /\ err_index' = i
          /\ err_code' = code
          /\ dbCount' = dbCount + i
          /\ inserted' = i
    /\ calls' = Append(calls, [lo |-> 0, hi |-> n])
    /\ bulkOutcome' = "bwe"
    /\ pc' = "except"
    /\ UNCHANGED <<fields, n, initial_num_docs, batch_size, idx, count, num_docs,
                   inserted_ids, result, raised, pauses, entered, others, cfgVars, linkVars, objVars>>

\* collection.insert_many(entries) raises anything else: not caught
BulkOtherErr ==
    /\ pc = "bulk"
    /\ calls' = Append(calls, [lo |-> 0, hi |-> n])
    /\ bulkOutcome' = "other"
    /\ raised' = "VendorError"
    /\ pc' = "raised"
    /\ UNCHANGED <<fields, n, dbCount, initial_num_docs, err_index, err_code,
                   batch_size, idx, count, num_docs, inserted_ids, result, pauses,
                   inserted, entered, others, cfgVars, linkVars, objVars>>

\* the handler of the BulkWriteError up to the first chunk (MongoDb.py:330-342)
Handle ==
    /\ pc = "except"
    /\ pauses' = pauses + 1
    /\ IF ShouldRetry(err_code, fields["server"])
       THEN /\ entered' = TRUE
            /\ batch_size' = BatchSize(err_index)
            /\ inserted_ids' = [k \in 1..err_index |-> IdNone]
            /\ count' = err_index
            /\ idx' = err_index
            /\ IF batch_size' = 0
               THEN \* range() arg 3 must not be zero
                    /\ raised' = "ValueError: range step"
                    /\ pc' = "raised"
               ELSE /\ raised' = raised
                    /\ pc' = IF err_index < n THEN "loop" ELSE "verify"
       ELSE /\ raised' = "BulkWriteError"
            /\ pc' = "raised"
            /\ UNCHANGED <<entered, batch_size, inserted_ids, count, idx>>
    /\ UNCHANGED <<fields, n, dbCount, initial_num_docs, err_index, err_code,
                   num_docs, result, calls, inserted, bulkOutcome, others, cfgVars, linkVars, objVars>>

\* one iteration of the loop, the chunk insert succeeding (MongoDb.py:343-348)
ChunkOk ==
    /\ pc = "loop"
    /\ LET hi == SliceEnd(idx, batch_size, n)
           ids == IdsOf(idx, hi)
       IN  /\ \E ack \in BOOLEAN :
                 result' = [inserted_ids |-> ids, acknowledged |-> ack]
           /\ calls' = Append(calls, [lo |-> idx, hi |-> hi])
           /\ inserted_ids' = Append(inserted_ids, IdList(ids))
           /\ count' = count + Len(ids)
           /\ dbCount' = dbCount + (hi - idx)
           /\ inserted' = inserted + (hi - idx)
    /\ pauses' = pauses + 1
    /\ idx' = NextIdx(idx, batch_size)
    /\ pc' = IF idx' < n THEN "loop" ELSE "verify"
    /\ UNCHANGED <<fields, n, initial_num_docs, err_index, err_code, batch_size,
                   num_docs, raised, bulkOutcome, entered, others, cfgVars, linkVars, objVars>>

\* a chunk insert raises BulkWriteError after k documents (MongoDb.py:356-358)
ChunkBulkWriteErr ==
    /\ pc = "loop"
    /\ LET hi == SliceEnd(idx, batch_size, n)
       IN  /\ calls' = Append(calls, [lo |-> idx, hi |-> hi])
           /\ \E k \in 0..(hi - idx - 1), code \in ErrCodes :
                 LET to == OnChunkBulkWriteError(code, batch_size)
                 IN  /\ dbCount' = dbCount + k
                     /\ inserted' = inserted + k
                     /\ pc' = to.pc
                     /\ batch_size' = to.batch_size
                     /\ raised' = to.raised
                     /\ idx' = idx
    /\ UNCHANGED <<fields, n, initial_num_docs, err_index, err_code, count,
                   num_docs, inserted_ids, result, pauses, bulkOutcome, entered,
                   others, cfgVars, linkVars, objVars>>

\* a chunk insert raises anything else: not caught
ChunkOtherErr ==
    /\ pc = "loop"
    /\ calls' = Append(calls, [lo |-> idx, hi |-> SliceEnd(idx, batch_size, n)])
    /\ raised' = "VendorError"
    /\ pc' = "raised"
    /\ UNCHANGED <<fields, n, dbCount, initial_num_docs, err_index, err_code,
                   batch_size, idx, count, num_docs, inserted_ids, result, pauses,
                   inserted, bulkOutcome, entered, others, cfgVars, linkVars, objVars>>

\* the count verification after the loop (MongoDb.py:350-355)
Verify ==
    /\ pc = "verify"
    /\ num_docs' = dbCount - initial_num_docs
    /\ IF CountMismatch(num_docs', n)
       THEN /\ raised' = "CountMismatch"
            /\ pc' = "raised"
            /\ result' = result
       ELSE /\ result' = [inserted_ids |-> inserted_ids,
                          acknowledged |-> result.acknowledged]
            /\ pc' = "returned"
            /\ raised' = raised
    /\ UNCHANGED <<fields, n, dbCount, initial_num_docs, err_index, err_code,
                   batch_size, idx, count, inserted_ids, calls, pauses, inserted,
                   bulkOutcome, entered, others, cfgVars, linkVars, objVars>>

\* another client of the collection adds or removes a document while
\* insert_many runs: count_documents({}) counts the whole collection
OtherClient ==
    /\ pc \in {"bulk", "except", "loop", "verify"}
    /\ others < MaxOthers
    /\ others' = others + 1
    /\ \E d \in {-1, 1} :
          /\ dbCount + d >= inserted
          /\ dbCount' = dbCount + d
    /\ UNCHANGED <<fields, pc, n, initial_num_docs, err_index, err_code,
                   batch_size, idx, count, num_docs, inserted_ids, result, raised,
                   calls, pauses, inserted, bulkOutcome, entered, cfgVars, linkVars, objVars>>

Next ==
    \/ Call
    \/ BulkOk
    \/ BulkWriteErr
    \/ BulkOtherErr
    \/ Handle
    \/ ChunkOk
    \/ ChunkBulkWriteErr
    \/ ChunkOtherErr
    \/ Verify
    \/ OtherClient

Spec == Init /\ [][Next]_vars

\* every vendor call returns or raises, and the interpreter goes on to the
\* next statement of insert_many
VendorReturns ==
    \/ BulkOk
    \/ BulkWriteErr
    \/ BulkOtherErr
    \/ Handle
    \/ ChunkOk
    \/ ChunkBulkWriteErr
    \/ ChunkOtherErr
    \/ Verify

SpecLive == Init /\ [][Next]_vars /\ WF_vars(VendorReturns)

\* db = MongoDb(server='fake server', test=True) and an empty source
InitCfg ==
    /\ InsIdle
    /\ CfgIdle
    /\ LinkIdle
    /\ ObjIdle
    /\ dbCount = 0
    /\ fields = [k \in KEYS |-> IF k = "server" THEN <<"fake", " ", "server">> ELSE None]

\* the caller writes to the source: str_io.write(...)
Write ==
    /\ loads = 0
    /\ pos = Len(file)
    /\ Len(file) < MaxFileLen
    /\ \E a \in Atoms : file' = Append(file, a)
    /\ pos' = Len(file')
    /\ UNCHANGED <<fields, insVars, linkVars, objVars, loads, config, cfgErr, prevConfig, prevFields,
                   notices>>

\* the caller repositions the source: str_io.seek(0, SEEK_SET)
Rewind ==
    /\ loads = 0
    /\ pos # 0
    /\ pos' = 0
    /\ UNCHANGED <<fields, insVars, linkVars, objVars, file, loads, config, cfgErr, prevConfig, prevFields,
                   notices>>

\* db._load_cfg_file(str_io) (MongoDb.py:151-156)
LoadCfgFileResets ==
    /\ loads < MaxLoads
    /\ loads' = loads + 1
    /\ prevConfig' = config
    /\ prevFields' = fields
    /\ LET r == load_cfg_file(file, pos)
       IN  /\ config' = r.config
           /\ cfgErr' = r.err
           /\ pos' = r.pos
           /\ notices' = r.log
           /\ fields' = IF r.err = NoError THEN set_config(fields, r.config)
                        ELSE [k \in KEYS |-> None]
    /\ UNCHANGED <<insVars, linkVars, objVars, file>>
LoadCfgFile ==
    /\ loads < MaxLoads
    /\ loads' = loads + 1
    /\ prevConfig' = config
    /\ prevFields' = fields
    /\ LET r == load_cfg_file(file, pos)
       IN  /\ config' = r.config
           /\ cfgErr' = r.err
           /\ pos' = r.pos
           /\ notices' = r.log
           /\ fields' = IF r.err = NoError THEN set_config(fields, r.config) ELSE fields
    /\ UNCHANGED <<insVars, linkVars, objVars, file>>

NextCfg ==
    \/ Write
    \/ Rewind
    \/ LoadCfgFile

SpecCfg == InitCfg /\ [][NextCfg]_vars

(***************************************************************************)
(* make_db_link                                                            *)
(***************************************************************************)
QUERY_KEY_ORDER == <<"auth_source", "ssl", "replica_set", "max_idle_time_ms", "app_name",
                     "retry_writes">>
LINK_ORDER == <<"username", "password", "server", "port", "dbname">> \o QUERY_KEY_ORDER
QUERY_KEY_NAMES == <<"authSource", "ssl", "replicaSet", "maxIdleTimeMS", "appName",
                     "retryWrites">>

\* MongoDb.QUERY_KEYS.index(key)
IndexOf(seq, x) == CHOOSE k \in 1..Len(seq) : seq[k] = x

\* runs of decimal digits
DigitRuns == {"27017", "1000", "1", "10", "2"}

\* str.isdigit(): non-empty and every character a digit
IsDigit(s) == s # <<>> /\ \A k \in 1..Len(s) : s[k] \in DigitRuns

\* urllib.parse.quote_plus on one run of characters
QuoteAtomNone(a) == a
QuoteAtom(a) ==
    CASE a = "@" -> "%40"
      [] a = ":" -> "%3A"
      [] a = "/" -> "%2F"
      [] a = "%" -> "%25"
      [] a = "=" -> "%3D"
      [] a = "#" -> "%23"
      [] a = " " -> "+"
      [] a = "\n" -> "%0A"
      [] OTHER -> a

\* urllib.parse.quote_plus(s)
QuotePlus(s) == [k \in 1..Len(s) |-> QuoteAtom(s[k])]

NoLinkError == "none"

\* lwr == 'true' or lwr == 'false'
IsBooleanExact(v) == v \in {<<"true">>, <<"false">>}
IsBoolean(v) == LowerAll(v) \in {<<"true">>, <<"false">>}

\* MongoDb.__test_params(args): the message of the ValueError it raises
test_params_numeric_first(args) ==
    IF args["server"] = None THEN "Missing server configuration"
    ELSE IF args["port"] # None /\ ~IsDigit(args["port"])
    THEN "Non-integer value specified for port"
    ELSE IF args["max_idle_time_ms"] # None /\ ~IsDigit(args["max_idle_time_ms"])
    THEN "Non-integer value specified for max_idle_time_ms"
    ELSE IF args["username"] = None /\ args["password"] # None
    THEN "Password configured but no username configured"
    ELSE IF args["ssl"] # None /\ ~IsBoolean(args["ssl"])
    THEN "Invalid value specified for ssl"
    ELSE IF args["retry_writes"] # None /\ ~IsBoolean(args["retry_writes"])
    THEN "Invalid value specified for retry_writes"
    ELSE NoLinkError
test_params(args) ==
    IF args["server"] = None THEN "Missing server configuration"
    ELSE IF args["username"] = None /\ args["password"] # None
    THEN "Password configured but no username configured"
    ELSE IF args["port"] # None /\ ~IsDigit(args["port"])
    THEN "Non-integer value specified for port"
    ELSE IF args["max_idle_time_ms"] # None /\ ~IsDigit(args["max_idle_time_ms"])
    THEN "Non-integer value specified for max_idle_time_ms"
    ELSE IF args["ssl"] # None /\ ~IsBoolean(args["ssl"])
    THEN "Invalid value specified for ssl"
    ELSE IF args["retry_writes"] # None /\ ~IsBoolean(args["retry_writes"])
    THEN "Invalid value specified for retry_writes"
    ELSE NoLinkError

\* args[key] = kwargs[key] if key in kwargs else self[key]
LinkArgs(f, kw) == [k \in KEYS |-> IF k \in DOMAIN kw THEN kw[k] ELSE f[k]]

\* args['ssl'] = args['ssl'].lower()
LowerSsl(args) ==
    [k \in KEYS |-> IF k = "ssl" /\ args[k] # None THEN LowerAll(args[k]) ELSE args[k]]

\* link += '/?' for the first query parameter, '&' for the later ones
QuerySeparatorAmp(query_params) == "&"
QuerySeparator(query_params) == IF query_params = 0 THEN "/?" ELSE "&"

\* what one key of LINK_ORDER appends to the link
LinkPartWithDbname(args, key, query_params) ==
    IF key = "username" THEN QuotePlus(args[key])
    ELSE IF key = "password" THEN <<":">> \o QuotePlus(args[key]) \o <<"@">>
    ELSE IF key = "server" THEN args[key]
    ELSE IF key = "port" THEN <<":">> \o args[key]
    ELSE IF key = "dbname" THEN <<"/">> \o args[key]
    ELSE IF key \in QUERY_KEYS
    THEN <<QuerySeparator(query_params), QUERY_KEY_NAMES[IndexOf(QUERY_KEY_ORDER, key)],
           "=">> \o args[key]
    ELSE <<>>
LinkPart(args, key, query_params) ==
    IF key = "username" THEN QuotePlus(args[key])
    ELSE IF key = "password" THEN <<":">> \o QuotePlus(args[key]) \o <<"@">>
    ELSE IF key = "server" THEN args[key]
    ELSE IF key = "port" THEN <<":">> \o args[key]
    ELSE IF key \in QUERY_KEYS
    THEN <<QuerySeparator(query_params), QUERY_KEY_NAMES[IndexOf(QUERY_KEY_ORDER, key)],
           "=">> \o args[key]
    ELSE <<>>

\* for key in MongoDb.LINK_ORDER: if args[key] is not None: link += ...
RECURSIVE BuildLink(_, _, _, _)
BuildLink(args, k, query_params, uri) ==
    IF k > Len(LINK_ORDER) THEN uri
    ELSE LET key == LINK_ORDER[k]
         IN  IF args[key] = None THEN BuildLink(args, k + 1, query_params, uri)
             ELSE BuildLink(args, k + 1,
                            IF key \in QUERY_KEYS THEN query_params + 1 ELSE query_params,
                            uri \o LinkPart(args, key, query_params))

\* MongoDb.make_db_link(**kwargs) on an object whose configuration is f
make_db_link_trailing_slash(f, kw) ==
    LET args == LinkArgs(f, kw)
        e == test_params(args)
    IN  IF args["server"] = None THEN [err |-> "Server not configured", uri |-> <<>>]
        ELSE IF e # NoLinkError THEN [err |-> e, uri |-> <<>>]
        ELSE [err |-> NoLinkError,
              uri |-> BuildLink(LowerSsl(args), 1, 0, <<"mongodb://">>) \o <<"/">>]
make_db_link(f, kw) ==
    LET args == LinkArgs(f, kw)
        e == test_params(args)
    IN  IF args["server"] = None THEN [err |-> "Server not configured", uri |-> <<>>]
        ELSE IF e # NoLinkError THEN [err |-> e, uri |-> <<>>]
        ELSE [err |-> NoLinkError, uri |-> BuildLink(LowerSsl(args), 1, 0, <<"mongodb://">>)]

\* the values the constructor's keyword arguments draw a field from
FieldValues(k) ==
    CASE k = "username" -> { None, <<"fun", "@", "ny", ":", "user", "/", "name", "%">> }
      [] k = "password" -> { None, <<"@", ":", "/", "%">> }
      [] k = "port" -> { None, <<"27017">>, <<"notaninteger">>, <<"10", ".", "2">>,
                         <<"-", "1">> }
      [] k = "dbname" -> { None, <<"testdb">> }
      [] k = "auth_source" -> { None, <<"admin">> }
      [] k = "ssl" -> { None, <<"true">>, <<"FALSE">>, <<"notaboolean">> }
      [] k = "replica_set" -> { None, <<"rs", "/", "0">> }
      [] k = "max_idle_time_ms" -> { None, <<"1000">>, <<"notaninteger">> }
      [] k = "app_name" -> { None, <<"my", " ", "app">> }
      [] k = "retry_writes" -> { None, <<"True">>, <<"yes">> }

\* the keyword arguments of a make_db_link call
LinkKwargs ==
    { EmptyCfg,
      [k \in {"server"} |-> None],
      [k \in {"server"} |-> <<"localhost">>],
      [k \in {"username"} |-> None],
      [k \in {"port"} |-> <<"27017">>] }

\* db = MongoDb(server=..., ..., test=True)
InitLink ==
    /\ InsIdle
    /\ CfgIdle
    /\ LinkIdle
    /\ ObjIdle
    /\ dbCount = 0
    /\ \E un \in FieldValues("username"), pw \in FieldValues("password"),
          po \in FieldValues("port"), dn \in FieldValues("dbname"),
          au \in FieldValues("auth_source"), sl \in FieldValues("ssl"),
          rs \in FieldValues("replica_set"), mi \in FieldValues("max_idle_time_ms"),
          an \in FieldValues("app_name"), rw \in FieldValues("retry_writes") :
          fields = [k \in KEYS |->
                       CASE k = "username" -> un
                         [] k = "password" -> pw
                         [] k = "port" -> po
                         [] k = "dbname" -> dn
                         [] k = "auth_source" -> au
                         [] k = "ssl" -> sl
                         [] k = "replica_set" -> rs
                         [] k = "max_idle_time_ms" -> mi
                         [] k = "app_name" -> an
                         [] k = "retry_writes" -> rw
                         [] k = "server" -> <<"fake", " ", "server">>
                         [] OTHER -> None]

\* db.make_db_link(**kwargs)
MakeDbLinkStoresArgs ==
    /\ \E kw \in LinkKwargs :
          /\ kwargs' = kw
          /\ link' = make_db_link(fields, kw)
          /\ fields' = IF make_db_link(fields, kw).err = NoLinkError
                       THEN LowerSsl(LinkArgs(fields, kw))
                       ELSE fields
    /\ UNCHANGED <<insVars, cfgVars, objVars>>
MakeDbLink ==
    /\ \E kw \in LinkKwargs :
          /\ kwargs' = kw
          /\ link' = make_db_link(fields, kw)
    /\ UNCHANGED <<fields, insVars, cfgVars, objVars>>

NextLink == MakeDbLink

SpecLink == InitLink /\ [][NextLink]_vars

(***************************************************************************)
(* Construction, field access and connections of the three classes         *)
(***************************************************************************)
MaxConnects == 2

Backends == {"mongo", "postgres", "cosmos"}

PostgresKeys == {"user", "password", "dbname", "host", "port"}
CosmosKeys == {"endpoint", "key", "dbname", "container_name"}

\* KEYS of the class
KeysOf(b) ==
    CASE b = "mongo" -> KEYS
      [] b = "postgres" -> PostgresKeys
      [] b = "cosmos" -> CosmosKeys

\* REQUIRED_KEYS of the class, in the order of the tuple
RequiredOrderFirstOnly(b) ==
    CASE b = "mongo" -> <<"server">>
      [] b = "postgres" -> <<"user">>
      [] b = "cosmos" -> <<"endpoint">>
RequiredOrder(b) ==
    CASE b = "mongo" -> <<"server">>
      [] b = "postgres" -> <<"user", "password", "dbname">>
      [] b = "cosmos" -> <<"endpoint", "key">>

ValueError(msg, key) == [type |-> "ValueError", msg |-> msg, key |-> key]
\* is_connected() on an object that has no client attribute
AttributeError == [type |-> "AttributeError", msg |-> "client", key |-> ""]
\* what the configuration loader raises on a file it cannot read or parse
LoadError == [type |-> "LoadError", msg |-> "load_cfg_filename", key |-> ""]
\* what the vendor's client constructor raises
VendorError == [type |-> "VendorError", msg |-> "client", key |-> ""]

\* for key in REQUIRED_KEYS: if self[key] is None: raise ValueError(...)
RequiredCheck(b, f) ==
    LET order == RequiredOrder(b)
        missing == {i \in 1..Len(order) : f[order[i]] = None}
    IN  IF missing = {} THEN NoErr
        ELSE ValueError("Missing configuration",
                        order[CHOOSE i \in missing : \A j \in missing : i <= j])

\* key in KEYS
ValidKeyAny(b, key) == TRUE
ValidKey(b, key) == key \in KeysOf(b)

\* self[key] = value
SetItemOn(b, f, key, value) ==
    IF ValidKey(b, key) THEN [f |-> Put(f, key, value), err |-> NoErr]
    ELSE [f |-> f, err |-> ValueError("The key is not valid", key)]

\* __set_config(config): for key in config.keys(): if key in KEYS: self[key] = config[key]
SetConfigOn(b, f, cfg) ==
    [k \in DOMAIN f |-> IF k \in DOMAIN cfg /\ k \in KeysOf(b) THEN cfg[k] ELSE f[k]]

\* get_configuration(): the entries of __dict__ whose key is in KEYS
get_configuration(b, f) == [k \in (DOMAIN f) \cap KeysOf(b) |-> f[k]]

\* a name that is in no KEYS
UnknownName == "nosuchkey"

\* the names the modelled calls pass as keyword arguments or assign to
VariedKeys(b) ==
    CASE b = "mongo" -> {"server", "username", "password", "port"}
      [] b = "postgres" -> PostgresKeys
      [] b = "cosmos" -> CosmosKeys

KwValue == <<"v">>
CfgValue == <<"c">>

\* the keyword arguments of a constructor call; only MongoDb takes **kwargs
CtorKwargs(b) ==
    LET names == IF b = "mongo" THEN VariedKeys(b) \cup {UnknownName} ELSE VariedKeys(b)
    IN  UNION {[S -> {KwValue}] : S \in SUBSET names}

\* the mappings a configuration file or bundle supplies
CfgMaps(b) ==
    LET order == RequiredOrder(b)
        names == {order[i] : i \in 1..Len(order)}
                    \cup (IF b = "mongo" THEN {UnknownName} ELSE {})
    IN  UNION {[S -> {CfgValue}] : S \in SUBSET names}

\* cfg_filename / cfg_bundle of a constructor call
CfgSources(b) == IF b = "mongo" THEN {"none", "file", "unreadable", "bundle"}
                 ELSE {"none", "file", "unreadable"}

\* the object before __init__ runs
InitObj ==
    /\ InsIdle
    /\ CfgIdle
    /\ LinkIdle
    /\ dbCount = 0
    /\ backend \in Backends
    /\ test = FALSE
    /\ client = "absent"
    /\ objErr = NoErr
    /\ lastOp = NoOp
    /\ connects = <<>>
    /\ partition_key = "None"
    /\ returned = "none"
    /\ fields = EmptyCfg

Constructed == lastOp.op # "none" /\ ~(lastOp.op = "construct" /\ objErr # NoErr)

\* PostgresDb.is_connected(): self.connection is not None
is_connected_never(c) == FALSE
is_connected(c) == c # "None"

\* the vendor connect call, as the history records it
ConnectCall(b, f) ==
    [backend |-> b,
     missing |-> \E i \in 1..Len(RequiredOrder(b)) : f[RequiredOrder(b)[i]] = None]

\* __init__ of the three classes (MongoDb.py:81-119, PostgresDb.py:47-68,
\* CosmosDb.py:51-76)
Construct ==
    /\ lastOp = NoOp
    /\ \E kw \in CtorKwargs(backend), src \in CfgSources(backend),
          m \in CfgMaps(backend), t \in BOOLEAN, vendorOk \in BOOLEAN :
          LET blank == [k \in KeysOf(backend) |-> None]
              badKw == {k \in DOMAIN kw : ~ValidKey(backend, k)}
              f1 == [k \in (DOMAIN blank) \cup ((DOMAIN kw) \ badKw) |->
                        IF k \in DOMAIN kw THEN kw[k] ELSE None]
              f2 == IF src \in {"file", "bundle"} THEN SetConfigOn(backend, f1, m) ELSE f1
              req == RequiredCheck(backend, f2)
              lnk == make_db_link(f2, EmptyCfg)
              creates == backend # "postgres" /\ ~t
          IN  /\ src \in {"none", "unreadable"} => m = EmptyCfg
              /\ src = "file" => DOMAIN m \subseteq KeysOf(backend)
              /\ backend = "postgres" => (t = FALSE)
              /\ (~creates \/ badKw # {} \/ src = "unreadable" \/ req # NoErr
                     \/ (backend = "mongo" /\ lnk.err # NoLinkError)) => vendorOk
              /\ lastOp' = [op |-> "construct", key |-> "", kw |-> kw, cfg |-> m,
                            source |-> src, vendor |-> "none"]
              /\ test' = t
              /\ IF badKw # {}
                 THEN /\ fields' = blank
                      /\ objErr' = ValueError("The key is not valid", CHOOSE k \in badKw : TRUE)
                      /\ UNCHANGED <<client, connects>>
                 ELSE IF src = "unreadable"
                 THEN /\ fields' = f1
                      /\ objErr' = LoadError
                      /\ client' = IF backend = "postgres" THEN "None" ELSE client
                      /\ UNCHANGED connects
                 ELSE IF req # NoErr
                 THEN /\ fields' = f2
                      /\ objErr' = req
                      /\ client' = IF backend = "postgres" THEN "None" ELSE client
                      /\ UNCHANGED connects
                 ELSE IF ~creates
                 THEN /\ fields' = f2
                      /\ objErr' = NoErr
                      /\ client' = IF backend = "postgres" THEN "None" ELSE client
                      /\ UNCHANGED connects
                 ELSE IF backend = "mongo" /\ lnk.err # NoLinkError
                 THEN /\ fields' = f2
                      /\ objErr' = ValueError(lnk.err, "")
                      /\ UNCHANGED <<client, connects>>
                 ELSE /\ fields' = f2
                      /\ connects' = Append(connects, ConnectCall(backend, f2))
                      /\ IF vendorOk
                         THEN /\ objErr' = NoErr
                              /\ client' = "open"
                         ELSE /\ objErr' = VendorError
                              /\ UNCHANGED client
    /\ returned' = "none"
    /\ UNCHANGED <<backend, partition_key, insVars, cfgVars, linkVars>>

\* db[key] = value
SetItem ==
    /\ Constructed
    /\ \E key \in VariedKeys(backend) \cup {UnknownName}, value \in {None, KwValue} :
          LET r == SetItemOn(backend, fields, key, value)
          IN  /\ fields' = r.f
              /\ objErr' = r.err
              /\ lastOp' = [op |-> "setitem", key |-> key, kw |-> EmptyCfg,
                            cfg |-> EmptyCfg, source |-> "none", vendor |-> "none"]
    /\ returned' = "none"
    /\ UNCHANGED <<backend, test, client, connects, partition_key, insVars, cfgVars, linkVars>>

\* db[key]
GetItem ==
    /\ Constructed
    /\ \E key \in VariedKeys(backend) \cup {UnknownName} :
          /\ objErr' = IF ValidKey(backend, key) THEN NoErr
                       ELSE ValueError("The key is not valid", key)
          /\ lastOp' = [op |-> "getitem", key |-> key, kw |-> EmptyCfg, cfg |-> EmptyCfg,
                        source |-> "none", vendor |-> "none"]
    /\ returned' = "none"
    /\ UNCHANGED <<fields, backend, test, client, connects, partition_key, insVars, cfgVars, linkVars>>

\* db._load_cfg_filename(cfg_filename)
LoadCfg ==
    /\ Constructed
    /\ \E src \in {"file", "unreadable"}, m \in CfgMaps(backend) :
          /\ src = "unreadable" => m = EmptyCfg
          /\ DOMAIN m \subseteq KeysOf(backend)
          /\ fields' = IF src = "file" THEN SetConfigOn(backend, fields, m) ELSE fields
          /\ objErr' = IF src = "file" THEN NoErr ELSE LoadError
          /\ lastOp' = [op |-> "load", key |-> "", kw |-> EmptyCfg, cfg |-> m,
                        source |-> src, vendor |-> "none"]
    /\ returned' = "none"
    /\ UNCHANGED <<backend, test, client, connects, partition_key, insVars, cfgVars, linkVars>>

\* get_connection() (MongoDb.py:220-237, PostgresDb.py:93-114)
GetConnection ==
    /\ Constructed
    /\ backend \in {"mongo", "postgres"}
    /\ Len(connects) < MaxConnects
    /\ lastOp' = [op |-> "get_connection", key |-> "", kw |-> EmptyCfg, cfg |-> EmptyCfg,
                  source |-> "none", vendor |-> "none"]
    /\ \E alive \in BOOLEAN, vendorOk \in BOOLEAN :
          IF backend = "postgres"
          THEN /\ objErr' = NoErr
               /\ IF is_connected(client)
                  THEN UNCHANGED <<client, connects>>
                  ELSE /\ connects' = Append(connects, ConnectCall(backend, fields))
                       /\ client' = IF vendorOk THEN "open" ELSE "None"
          ELSE IF client = "absent"
          THEN /\ objErr' = AttributeError
               /\ UNCHANGED <<client, connects>>
          ELSE IF client = "open" /\ alive
          THEN /\ objErr' = NoErr
               /\ UNCHANGED <<client, connects>>
          ELSE LET lnk == make_db_link(fields, EmptyCfg)
               IN  /\ objErr' = NoErr
                   /\ IF lnk.err # NoLinkError
                      THEN /\ client' = "None"
                           /\ UNCHANGED connects
                      ELSE /\ connects' = Append(connects, ConnectCall(backend, fields))
                           /\ client' = IF vendorOk THEN "open" ELSE "None"
    /\ returned' = IF objErr' = NoErr THEN client' ELSE "none"
    /\ UNCHANGED <<fields, backend, test, partition_key, insVars, cfgVars, linkVars>>

\* close_connection() (MongoDb.py:268-274, PostgresDb.py:123-129)
CloseConnection ==
    /\ Constructed
    /\ backend \in {"mongo", "postgres"}
    /\ lastOp' = [op |-> "close_connection", key |-> "", kw |-> EmptyCfg, cfg |-> EmptyCfg,
                  source |-> "none", vendor |-> "none"]
    /\ IF client = "absent"
       THEN /\ objErr' = AttributeError
            /\ UNCHANGED client
       ELSE /\ objErr' = NoErr
            /\ client' = IF backend = "postgres" /\ ~is_connected(client) THEN client
                         ELSE "None"
    /\ returned' = "none"
    /\ UNCHANGED <<fields, backend, test, connects, partition_key, insVars, cfgVars, linkVars>>

\* what the vendor's client raises for an HTTP failure that is not handled
HTTPFailure == [type |-> "HTTPFailure", msg |-> "status_code", key |-> ""]
\* self.partition_key["paths"] while partition_key is None
TypeError == [type |-> "TypeError", msg |-> "NoneType is not subscriptable", key |-> ""]

\* CosmosDb.make_db_link(): raises without a database name
CosmosDbLinkError(f) ==
    IF f["dbname"] = None THEN ValueError("Database name not configured", "") ELSE NoErr

\* CosmosDb.make_container_link(): raises without a container or database name
CosmosContainerLinkError(f) ==
    IF f["container_name"] = None THEN ValueError("Container name not configured", "")
    ELSE CosmosDbLinkError(f)

\* self.client.<call>(<link>): the attribute is read before the link is made
BeforeVendorCall(c, linkError) == IF c = "absent" THEN AttributeError ELSE linkError

CosmosOp(name, outcome) ==
    [op |-> name, key |-> "", kw |-> EmptyCfg, cfg |-> EmptyCfg, source |-> "none",
     vendor |-> outcome]

\* database_exists() (CosmosDb.py:155-168)
DatabaseExists ==
    /\ Constructed
    /\ backend = "cosmos"
    /\ \E v \in {"ok", "NOT_FOUND", "HTTPFailure"} :
          LET pre == BeforeVendorCall(client, CosmosDbLinkError(fields))
          IN  /\ pre # NoErr => v = "ok"
              /\ lastOp' = CosmosOp("database_exists", IF pre # NoErr THEN "none" ELSE v)
              /\ objErr' = IF pre # NoErr THEN pre
                           ELSE IF v = "HTTPFailure" THEN HTTPFailure
                           ELSE NoErr
              /\ returned' = IF pre # NoErr \/ v = "HTTPFailure" THEN "none"
                             ELSE IF v = "ok" THEN "True"
                             ELSE "False"
    /\ UNCHANGED <<fields, backend, test, client, connects, partition_key, insVars, cfgVars,
                   linkVars>>

\* container_exists() (CosmosDb.py:203-217)
ContainerExists ==
    /\ Constructed
    /\ backend = "cosmos"
    /\ \E v \in {"ok", "NOT_FOUND", "HTTPFailure"} :
          LET pre == BeforeVendorCall(client, CosmosContainerLinkError(fields))
          IN  /\ pre # NoErr => v = "ok"
              /\ lastOp' = CosmosOp("container_exists", IF pre # NoErr THEN "none" ELSE v)
              /\ objErr' = IF pre # NoErr THEN pre
                           ELSE IF v = "HTTPFailure" THEN HTTPFailure
                           ELSE NoErr
              /\ returned' = IF pre # NoErr \/ v = "HTTPFailure" THEN "none"
                             ELSE IF v = "ok" THEN "True"
                             ELSE "False"
    /\ UNCHANGED <<fields, backend, test, client, connects, partition_key, insVars, cfgVars,
                   linkVars>>

\* create_container(partition_path) with a str or a list (CosmosDb.py:170-201)
CreateContainer ==
    /\ Constructed
    /\ backend = "cosmos"
    /\ \E v \in {"ok", "CONFLICT", "HTTPFailure"} :
          LET pre == BeforeVendorCall(client, CosmosDbLinkError(fields))
          IN  IF fields["container_name"] = None
              THEN /\ v = "ok"
                   /\ lastOp' = CosmosOp("create_container", "none")
                   /\ objErr' = ValueError("Container name not configured", "")
                   /\ returned' = "none"
                   /\ UNCHANGED partition_key
              ELSE /\ pre # NoErr => v = "ok"
                   /\ partition_key' = "set"
                   /\ lastOp' = CosmosOp("create_container",
                                         IF pre # NoErr THEN "none" ELSE v)
                   /\ objErr' = IF pre # NoErr THEN pre
                                ELSE IF v = "HTTPFailure" THEN HTTPFailure
                                ELSE NoErr
                   /\ returned' = IF objErr' = NoErr THEN "container" ELSE "none"
    /\ UNCHANGED <<fields, backend, test, client, connects, insVars, cfgVars, linkVars>>

\* delete_items(partition_key, where) (CosmosDb.py:263-287)
DeleteItems ==
    /\ Constructed
    /\ backend = "cosmos"
    /\ \E v \in {"ok", "NOT_FOUND", "HTTPFailure"} :
          LET pre == BeforeVendorCall(client, CosmosContainerLinkError(fields))
          IN  /\ pre # NoErr => v = "ok"
              /\ lastOp' = CosmosOp("delete_items", IF pre # NoErr THEN "none" ELSE v)
              /\ objErr' = IF pre # NoErr THEN pre
                           ELSE IF v = "HTTPFailure" THEN HTTPFailure
                           ELSE IF v = "NOT_FOUND" /\ partition_key = "None" THEN TypeError
                           ELSE NoErr
              /\ returned' = IF objErr' # NoErr THEN "none"
                             ELSE IF v = "ok" THEN "deleted items"
                             ELSE "empty list"
    /\ UNCHANGED <<fields, backend, test, client, connects, partition_key, insVars, cfgVars,
                   linkVars>>

NextObj ==
    \/ Construct
    \/ SetItem
    \/ GetItem
    \/ LoadCfg
    \/ GetConnection
    \/ CloseConnection
    \/ DatabaseExists
    \/ ContainerExists
    \/ CreateContainer
    \/ DeleteItems

SpecObj == InitObj /\ [][NextObj]_vars

(***************************************************************************)
(* Claims about insert_many                                                *)
(***************************************************************************)
Max(a, b) == IF a > b THEN a ELSE b
ChunkCalls == SubSeq(calls, 2, Len(calls))
Azure == Contains(fields["server"], AzureMarker)
RetryDone == entered /\ (pc \in {"verify", "returned"} \/ raised = "CountMismatch")
NonCapacityFailure ==
    \/ bulkOutcome = "other"
    \/ bulkOutcome = "bwe" /\ err_code # CapacityExceeded

\* C1: once every chunk of the chunked retry has succeeded, the slices
\* re-submitted are non-empty, consecutive, in document order, start at the
\* first failing index and end at n, so that every index of err_index..n-1 is
\* submitted exactly once; the running count equals n.
C1_ChunksCoverTail ==
    RetryDone =>
        /\ Len(ChunkCalls) >= 1
        /\ ChunkCalls[1].lo = err_index
        /\ ChunkCalls[Len(ChunkCalls)].hi = n
        /\ \A j \in 1..Len(ChunkCalls) :
              /\ ChunkCalls[j].lo < ChunkCalls[j].hi
              /\ j < Len(ChunkCalls) => ChunkCalls[j + 1].lo = ChunkCalls[j].hi
        /\ count = n
C1_Witness == pc = "verify" /\ Len(ChunkCalls) >= 2 /\ batch_size >= 2

\* C2: whenever the chunked retry is entered, the chunk size is
\* max(1, floor(err_index / 4)), hence at least 1, and the retry proceeds.
C2_ChunkSizeAtLeastOne ==
    entered =>
        /\ batch_size = Max(1, err_index \div 4)
        /\ raised # "ValueError: range step"

\* C3: a whole-batch insert that fails with a bulk write error of another
\* code, or with any other failure, is raised to the caller as it is, and
\* the whole-batch call stays the only insert call.
C3_NonCapacityPropagates ==
    NonCapacityFailure =>
        /\ Len(calls) = 1
        /\ ~entered
        /\ pc \in {"except", "raised"}
        /\ pc = "raised" =>
              raised = IF bulkOutcome = "other" THEN "VendorError" ELSE "BulkWriteError"
C3_Witness ==
    /\ bulkOutcome = "bwe"
    /\ err_code = OtherCode
    /\ Azure
    /\ pc = "raised"

\* C4 as stated: every bulk write error carrying the capacity-exceeded code
\* enters the chunked retry, whatever server is configured.
C4_RetryOnCodeAlone ==
    (bulkOutcome = "bwe" /\ pc # "except" /\ err_code = CapacityExceeded) => entered

\* C4 amended: a bulk write error enters the chunked retry exactly when its
\* first write error carries the capacity-exceeded code and the configured
\* server contains 'mongo.cosmos.azure'.
C4_RetryOnCodeAndServer ==
    (bulkOutcome = "bwe" /\ pc # "except") =>
        (entered <=> (err_code = CapacityExceeded /\ Azure))
C4_Witness ==
    /\ bulkOutcome = "bwe"
    /\ err_code = CapacityExceeded
    /\ ~Azure
    /\ pc = "raised"
    /\ raised = "BulkWriteError"

\* C5: the step after the last chunk raises CountMismatch exactly when the
\* collection's count minus the count recorded before the first attempt
\* differs from n, and returns otherwise; it issues no insert, and once an
\* error is raised nothing more is done.
C5_CountVerification ==
    /\ [][(pc = "verify" /\ pc' # "verify") =>
             /\ calls' = calls
             /\ IF dbCount - initial_num_docs # n
                THEN pc' = "raised" /\ raised' = "CountMismatch"
                ELSE pc' = "returned" /\ raised' = "none"]_vars
    /\ [][raised = "CountMismatch" => UNCHANGED <<pc, raised, calls>>]_vars
C5_Witness == raised = "CountMismatch" /\ num_docs > n

\* C6: a chunk insert that fails ends the call with that error; no insert
\* call follows an error, the chunk size never changes once the chunked
\* retry runs, and chunked mode is entered at most once, from the handler of
\* the whole-batch failure.
C6_SingleEscalation ==
    [][/\ (pc = "loop" /\ calls' # calls /\ count' = count) =>
             (pc' = "raised" /\ raised' \in {"BulkWriteError", "VendorError"})
       /\ pc \in {"loop", "verify"} => batch_size' = batch_size
       /\ pc = "raised" => (pc' = "raised" /\ calls' = calls)
       /\ (pc' = "loop" /\ pc # "loop") => (pc = "except" /\ ~entered)
       /\ pc' = "except" => pc \in {"bulk", "except"}]_vars
C6_Witness ==
    /\ entered
    /\ pc = "raised"
    /\ raised = "BulkWriteError"
    /\ Len(ChunkCalls) >= 2
    /\ batch_size >= 2

\* C7: whenever insert_many returns without raising, exactly n documents
\* were newly inserted, on every path.
C7_ReturnMeansAllInserted == pc = "returned" => inserted = n

\* C8: after a chunked retry that succeeds, the returned result lists one
\* identifier per submitted document: None for the documents before the
\* first failing index, then the identifiers of the documents
\* err_index..n-1 in document order.
C8_OneIdPerDocument ==
    (pc = "returned" /\ entered) =>
        /\ Len(result.inserted_ids) = n
        /\ \A k \in 1..n :
              result.inserted_ids[k] = IF k <= err_index THEN IdNone ELSE IdOne(k - 1)

(***************************************************************************)
(* Claims about load_cfg_file                                              *)
(***************************************************************************)
\* the lines of the whole text, trimmed
TrimmedLines(text) ==
    LET ls == SplitLines(text) IN [k \in 1..Len(ls) |-> Strip(ls[k])]

\* neither blank nor a comment
IsEntryLine(l) == l # <<>> /\ l[1] # "#"

HasSeparator(l) == \E k \in 1..Len(l) : l[k] = "="

\* the trimmed text after the first separator, empty without one
ValueOf(l) ==
    IF HasSeparator(l)
    THEN LET k == CHOOSE k \in 1..Len(l) : l[k] = "=" /\ \A j \in 1..(k - 1) : l[j] # "="
         IN  Strip(SubSeq(l, k + 1, Len(l)))
    ELSE <<>>

\* key-separator-value: a non-empty run of word characters, optional white
\* space, the separator
HasEntryForm(l) ==
    \E w \in 1..Len(l) : \E j \in w..(Len(l) - 1) :
        /\ \A x \in 1..w : l[x] \in Words
        /\ \A x \in (w + 1)..j : IsSpace(l[x])
        /\ l[j + 1] = "="

\* the key of the line is one word, a key of KEYS once lower-cased
HasRecognizedKey(l) ==
    /\ Lower(l[1]) \in KEYS
    /\ Len(l) >= 2 => l[2] \notin Words

WellFormedRecognized(text) ==
    \A k \in 1..Len(TrimmedLines(text)) :
        LET l == TrimmedLines(text)[k]
        IN  IsEntryLine(l) => (HasEntryForm(l) /\ ValueOf(l) # <<>> /\ HasRecognizedKey(l))

LacksSeparatorOrValue(l) == IsEntryLine(l) /\ (~HasSeparator(l) \/ ValueOf(l) = <<>>)
Malformed(l) == IsEntryLine(l) /\ (~HasEntryForm(l) \/ ValueOf(l) = <<>>)

\* the error of the last load cites line k of the text
ErrorCites(text, k) ==
    /\ cfgErr.kind # "none"
    /\ cfgErr.line = k
    /\ cfgErr.text = TrimmedLines(text)[k]
    /\ config = EmptyCfg

\* C9: a well-formed text with only recognized keys loads to the same
\* mapping twice in a row, without an error, and the second load leaves the
\* object's fields as the first left them.
C9_LoadIdempotent ==
    (loads >= 2 /\ WellFormedRecognized(file)) =>
        /\ cfgErr = NoError
        /\ config = prevConfig
        /\ fields = prevFields
C9_Witness ==
    /\ loads = 2
    /\ WellFormedRecognized(file)
    /\ Len(TrimmedLines(file)) >= 2
    /\ DOMAIN config = {"port"}
    /\ fields["port"] = <<"server">>

\* C10 as stated: if some entry line lacks the separator or has an empty
\* value, the load fails with an error citing the number and the text of the
\* first such line.
C10_FirstLineWithoutSeparatorOrValue ==
    LET ls == TrimmedLines(file)
        bad == {k \in 1..Len(ls) : LacksSeparatorOrValue(ls[k])}
    IN  (loads >= 1 /\ bad # {}) =>
            ErrorCites(file, CHOOSE k \in bad : \A j \in bad : k <= j)

\* C10 amended: if some entry line does not have the form
\* key-separator-value or has an empty value after trimming, the load fails
\* with an error citing the 1-based physical number and the trimmed text of
\* the first such line, and returns no mapping.
C10_FirstMalformedLine ==
    LET ls == TrimmedLines(file)
        bad == {k \in 1..Len(ls) : Malformed(ls[k])}
    IN  (loads >= 1 /\ bad # {}) =>
            ErrorCites(file, CHOOSE k \in bad : \A j \in bad : k <= j)
C10_Witness ==
    /\ loads >= 1
    /\ cfgErr.kind = "Missing value entry"
    /\ cfgErr.line = 2
    /\ Malformed(TrimmedLines(file)[2])

\* the text of the line before its first separator is empty once trimmed
HasEmptyKey(l) ==
    /\ HasSeparator(l)
    /\ LET k == CHOOSE k \in 1..Len(l) : l[k] = "=" /\ \A j \in 1..(k - 1) : l[j] # "="
       IN  Strip(SubSeq(l, 1, k - 1)) = <<>>

\* C11: a load that fails on a line whose key part is empty after trimming
\* ('= value') fails with the error 'Missing key entry', not with the error
\* 'Invalid configuration file entry' of a malformed line.
C11_EmptyKeyIsMissingKey ==
    (loads >= 1 /\ cfgErr.kind # "none" /\ HasEmptyKey(cfgErr.text)) =>
        cfgErr.kind = "Missing key entry"

\* a line of the form key-separator-value with a value and a key outside KEYS
UnrecognizedEntry(l) ==
    IsEntryLine(l) /\ HasEntryForm(l) /\ ValueOf(l) # <<>> /\ ~HasRecognizedKey(l)

\* the number of the last line a load read
LastLineRead(text) ==
    IF cfgErr.kind = "none" THEN Len(TrimmedLines(text)) ELSE cfgErr.line

\* C12: an entry with a key outside KEYS never is the line a load fails on,
\* never adds to the mapping, and is logged exactly once when it is read;
\* nothing else is logged, and the mapping holds only keys of KEYS with
\* trimmed, non-empty values.
C12_UnrecognizedKeysIgnored ==
    loads >= 1 =>
        LET ls == TrimmedLines(file)
            unknown == {k \in 1..LastLineRead(file) : UnrecognizedEntry(ls[k])}
        IN  /\ cfgErr.kind # "none" => cfgErr.line \notin unknown
            /\ \A k \in unknown : Cardinality({j \in 1..Len(notices) : notices[j] = k}) = 1
            /\ \A j \in 1..Len(notices) : notices[j] \in unknown
            /\ DOMAIN config \subseteq KEYS
            /\ \A k \in DOMAIN config : config[k] # <<>> /\ Strip(config[k]) = config[k]
C12_Witness ==
    /\ loads >= 1
    /\ cfgErr.kind = "none"
    /\ notices = <<1>>
    /\ UnrecognizedEntry(TrimmedLines(file)[1])
    /\ config = EmptyCfg

(***************************************************************************)
(* Claims about make_db_link                                               *)
(***************************************************************************)
\* the arguments the last make_db_link call worked on
CallArgs == LinkArgs(fields, kwargs)
LinkReturned == link # NoLink /\ link.err = NoLinkError
LinkRaised == link # NoLink /\ link.err # NoLinkError

IsPrefix(p, s) == Len(p) <= Len(s) /\ SubSeq(s, 1, Len(p)) = p
HasSub(s, sub) == \E k \in 1..(Len(s) - Len(sub) + 1) : SubSeq(s, k, k + Len(sub) - 1) = sub

\* pct: '@' -> %40, ':' -> %3A, '/' -> %2F, '%' -> %25
PctAtom(a) ==
    CASE a = "@" -> "%40"
      [] a = ":" -> "%3A"
      [] a = "/" -> "%2F"
      [] a = "%" -> "%25"
      [] OTHER -> a
Pct(s) == [k \in 1..Len(s) |-> PctAtom(s[k])]

UriName(q) == QUERY_KEY_NAMES[IndexOf(QUERY_KEY_ORDER, q)]

\* with a username and a password the link starts with the scheme and
\* pct(username) ':' pct(password) '@', followed by the host as given
CredentialsEscaped ==
    (CallArgs["username"] # None /\ CallArgs["password"] # None) =>
        IsPrefix(<<"mongodb://">> \o Pct(CallArgs["username"]) \o <<":">>
                    \o Pct(CallArgs["password"]) \o <<"@">> \o CallArgs["server"],
                 link.uri)

\* the host and the port appear as given
HostPortVerbatim ==
    /\ HasSub(link.uri, CallArgs["server"])
    /\ CallArgs["port"] # None =>
          HasSub(link.uri, CallArgs["server"] \o <<":">> \o CallArgs["port"])

\* C16 as stated: with a username and a password, the credential component
\* of the link is pct(username) ':' pct(password) '@', and the host, the
\* port and every query-parameter value appear in the link exactly as given.
C16_AllValuesVerbatim ==
    LinkReturned =>
        /\ CredentialsEscaped
        /\ HostPortVerbatim
        /\ \A q \in QUERY_KEYS :
              CallArgs[q] # None => HasSub(link.uri, <<UriName(q), "=">> \o CallArgs[q])

\* C16, amended: with a username and a password, the credential component
\* of the link is pct(username) ':' pct(password) '@'; the host, the port
\* and every query-parameter value appear unescaped, exactly as given except
\* the value of ssl, which appears in lower case.
C16_CredentialsEscapedSslLowered ==
    LinkReturned =>
        /\ CredentialsEscaped
        /\ HostPortVerbatim
        /\ \A q \in QUERY_KEYS :
              CallArgs[q] # None =>
                  HasSub(link.uri,
                         <<UriName(q), "=">>
                            \o (IF q = "ssl" THEN LowerAll(CallArgs[q]) ELSE CallArgs[q]))

C16_Witness ==
    /\ LinkReturned
    /\ CallArgs["username"] = <<"fun", "@", "ny", ":", "user", "/", "name", "%">>
    /\ CallArgs["password"] = <<"@", ":", "/", "%">>
    /\ CallArgs["port"] = <<"27017">>
    /\ CallArgs["ssl"] = <<"FALSE">>
    /\ CallArgs["app_name"] = <<"my", " ", "app">>
    /\ CallArgs["replica_set"] = <<"rs", "/", "0">>
    /\ HasSub(link.uri, <<"fun", "%40", "ny", "%3A", "user", "%2F", "name", "%25", ":",
                          "%40", "%3A", "%2F", "%25", "@", "fake", " ", "server">>)
    /\ HasSub(link.uri, <<"ssl", "=", "false">>)

PasswordWithoutUsername == CallArgs["password"] # None /\ CallArgs["username"] = None
PasswordError == "Password configured but no username configured"
NonInteger(key) == IF key = "port" THEN "Non-integer value specified for port"
                   ELSE "Non-integer value specified for max_idle_time_ms"
InvalidValue(key) == IF key = "ssl" THEN "Invalid value specified for ssl"
                     ELSE "Invalid value specified for retry_writes"

\* C17 as stated: a call with a password and no username fails with the
\* password-without-username error whatever the other fields are, a missing
\* server included.
C17_PasswordErrorRegardless ==
    (link # NoLink /\ PasswordWithoutUsername) => link.err = PasswordError

\* C17, amended: a call with a server, a password and no username fails
\* with the password-without-username error whatever the numeric, boolean
\* and other fields are.
C17_PasswordErrorWhenServerSet ==
    (link # NoLink /\ PasswordWithoutUsername /\ CallArgs["server"] # None) =>
        link.err = PasswordError

C17_Witness ==
    /\ link.err = PasswordError
    /\ PasswordWithoutUsername
    /\ CallArgs["port"] = <<"notaninteger">>
    /\ CallArgs["max_idle_time_ms"] = <<"notaninteger">>
    /\ CallArgs["ssl"] = <<"notaboolean">>
    /\ CallArgs["retry_writes"] = <<"yes">>

\* int(v) succeeds: decimal digits with an optional sign
ParsesAsInteger(v) ==
    \/ v # <<>> /\ \A k \in 1..Len(v) : v[k] \in DigitRuns
    \/ Len(v) >= 2 /\ v[1] = "-" /\ \A k \in 2..Len(v) : v[k] \in DigitRuns

\* the checks that come before the numeric ones pass
ReachesNumericChecks == CallArgs["server"] # None /\ ~PasswordWithoutUsername

\* C18: when the call reaches the numeric checks, port is rejected as a
\* non-integer exactly when it is neither null nor parses as an integer, and
\* with an acceptable port the same holds of max_idle_time_ms.
C18_NumericAcceptedIffInteger ==
    (link # NoLink /\ ReachesNumericChecks) =>
        LET port == CallArgs["port"]
            idle == CallArgs["max_idle_time_ms"]
            portOk == port = None \/ ParsesAsInteger(port)
        IN  /\ link.err = NonInteger("port") <=> ~portOk
            /\ portOk =>
                  (link.err = NonInteger("max_idle_time_ms")
                      <=> ~(idle = None \/ ParsesAsInteger(idle)))

\* 'true' or 'false' in any mix of cases
TrueOrFalseIgnoringCase(v) ==
    v \in { <<"true">>, <<"TRUE">>, <<"True">>, <<"false">>, <<"FALSE">>, <<"False">> }
BooleanOrNull(v) == v = None \/ TrueOrFalseIgnoringCase(v)
DigitsOrNull(v) == v = None \/ (v # <<>> /\ \A k \in 1..Len(v) : v[k] \in DigitRuns)

\* the checks that come before the boolean ones pass
ReachesBooleanChecks ==
    /\ ReachesNumericChecks
    /\ DigitsOrNull(CallArgs["port"])
    /\ DigitsOrNull(CallArgs["max_idle_time_ms"])

\* C19: when the call reaches the boolean checks, ssl is rejected as an
\* invalid value exactly when it is neither null nor 'true'/'false' in some
\* mix of cases; with an acceptable ssl the same holds of retry_writes; with
\* both acceptable the call returns a link.
C19_BooleanAcceptedIffTrueFalse ==
    (link # NoLink /\ ReachesBooleanChecks) =>
        LET ssl == CallArgs["ssl"]
            rw == CallArgs["retry_writes"]
        IN  /\ link.err = InvalidValue("ssl") <=> ~BooleanOrNull(ssl)
            /\ BooleanOrNull(ssl) =>
                  (link.err = InvalidValue("retry_writes") <=> ~BooleanOrNull(rw))
            /\ (BooleanOrNull(ssl) /\ BooleanOrNull(rw)) => link.err = NoLinkError

C19_Witness ==
    /\ LinkReturned
    /\ CallArgs["ssl"] = <<"FALSE">>
    /\ CallArgs["retry_writes"] = <<"True">>

\* the declared order of the query parameters and their URI names
DeclaredOrder == <<"auth_source", "ssl", "replica_set", "max_idle_time_ms", "app_name",
                   "retry_writes">>
DeclaredName(q) ==
    CASE q = "auth_source" -> "authSource"
      [] q = "ssl" -> "ssl"
      [] q = "replica_set" -> "replicaSet"
      [] q = "max_idle_time_ms" -> "maxIdleTimeMS"
      [] q = "app_name" -> "appName"
      [] q = "retry_writes" -> "retryWrites"

\* the non-null query parameters, in the declared order
PresentQueryKeys ==
    LET present(q) == CallArgs[q] # None
    IN  SelectSeq(DeclaredOrder, present)

\* name=value of the k-th present parameter and of those after it, the
\* first introduced by '?' after the empty path '/', the later ones by '&'
RECURSIVE ExpectedQuery(_, _)
ExpectedQuery(qs, k) ==
    IF k > Len(qs) THEN <<>>
    ELSE <<IF k = 1 THEN "/?" ELSE "&", DeclaredName(qs[k]), "=">>
            \o (IF qs[k] = "ssl" THEN LowerAll(CallArgs[qs[k]]) ELSE CallArgs[qs[k]])
            \o ExpectedQuery(qs, k + 1)

ExpectedAuth ==
    (IF CallArgs["username"] = None THEN <<>> ELSE QuotePlus(CallArgs["username"]))
        \o (IF CallArgs["password"] = None THEN <<>>
            ELSE <<":">> \o QuotePlus(CallArgs["password"]) \o <<"@">>)

ExpectedPort == IF CallArgs["port"] = None THEN <<>> ELSE <<":">> \o CallArgs["port"]

\* C20: the link of a valid configuration is the scheme, the authentication
\* component, the host, the port and the query string in this order; the
\* query string holds exactly the non-null query parameters under their
\* URI names in the declared order, the first introduced by '?' and each
\* later one by '&'; null fields contribute nothing.
C20_LinkOrdering ==
    LinkReturned =>
        link.uri = <<"mongodb://">> \o ExpectedAuth \o CallArgs["server"] \o ExpectedPort
                      \o ExpectedQuery(PresentQueryKeys, 1)

C20_Witness ==
    /\ LinkReturned
    /\ CallArgs["username"] # None /\ CallArgs["password"] # None
    /\ CallArgs["port"] # None
    /\ CallArgs["dbname"] # None
    /\ CallArgs["auth_source"] = None /\ CallArgs["replica_set"] = None
    /\ HasSub(link.uri, <<":", "27017", "/?", "ssl", "=", "true", "&", "maxIdleTimeMS", "=",
                          "1000", "&", "appName", "=", "my", " ", "app", "&",
                          "retryWrites", "=", "True">>)

(***************************************************************************)
(* Claims about construction, field access and connections                 *)
(***************************************************************************)
\* REQUIRED_KEYS of each class, as a set
RequiredNames(b) ==
    CASE b = "mongo" -> {"server"}
      [] b = "postgres" -> {"user", "password", "dbname"}
      [] b = "cosmos" -> {"endpoint", "key"}

\* the value of a field after the keyword arguments and then the file or
\* bundle of the constructor call are applied
SuppliedValue(k) ==
    IF lastOp.source \in {"file", "bundle"} /\ k \in DOMAIN lastOp.cfg THEN lastOp.cfg[k]
    ELSE IF k \in DOMAIN lastOp.kw THEN lastOp.kw[k]
    ELSE None

SomeRequiredNull == \E k \in RequiredNames(backend) : SuppliedValue(k) = None
IsMissingRequired(e) == e.type = "ValueError" /\ e.msg = "Missing configuration"

\* every keyword argument names a field and the file, if any, loads
InputsApplied ==
    /\ DOMAIN lastOp.kw \subseteq KeysOf(backend)
    /\ lastOp.source # "unreadable"

\* the errors of make_db_link's validation of the other fields
LinkValidationErrors ==
    {PasswordError, NonInteger("port"), NonInteger("max_idle_time_ms"),
     InvalidValue("ssl"), InvalidValue("retry_writes")}

\* C13 as stated: construction fails with the missing-required-field error
\* exactly when a required field is null after the keyword arguments and
\* the file or bundle are applied, and succeeds otherwise.
C13_FailsIffRequiredNull ==
    lastOp.op = "construct" =>
        /\ IsMissingRequired(objErr) <=> SomeRequiredNull
        /\ ~SomeRequiredNull => objErr = NoErr

\* C13, amended: when every keyword argument names a field and the file
\* loads, construction fails with the missing-required-field error exactly
\* when a required field is null after the keyword arguments and the file or
\* bundle are applied, and the error names such a field; otherwise
\* construction succeeds for PostgresDb and in test mode, and outside test
\* mode fails only when the client cannot be created, which for MongoDb
\* includes a configuration that make_db_link rejects.
C13_FailsIffRequiredNullOrClient ==
    (lastOp.op = "construct" /\ InputsApplied) =>
        /\ IsMissingRequired(objErr) <=> SomeRequiredNull
        /\ IsMissingRequired(objErr) =>
              (objErr.key \in RequiredNames(backend) /\ SuppliedValue(objErr.key) = None)
        /\ (~SomeRequiredNull /\ (test \/ backend = "postgres")) => objErr = NoErr
        /\ (~SomeRequiredNull /\ objErr # NoErr) =>
              \/ objErr = VendorError
              \/ /\ backend = "mongo"
                 /\ objErr.type = "ValueError"
                 /\ objErr.msg \in LinkValidationErrors

C13_Witness ==
    /\ lastOp.op = "construct"
    /\ backend = "postgres"
    /\ lastOp.source = "file"
    /\ DOMAIN lastOp.kw = {"user", "host"}
    /\ DOMAIN lastOp.cfg = {"password"}
    /\ objErr = ValueError("Missing configuration", "dbname")

\* C14: no vendor connect call is issued while a required field of the
\* class is null.
C14_NoConnectWhileRequiredNull ==
    \A i \in 1..Len(connects) : ~connects[i].missing

\* C15: the stored configuration, and what get_configuration returns, holds
\* only names of the class's KEYS; an assignment or a read with another name
\* raises ValueError and leaves the stored configuration as it was.
C15_UnknownNamesNeverStored ==
    /\ [](lastOp.op # "none" =>
             /\ DOMAIN fields \subseteq KeysOf(backend)
             /\ backend \in {"mongo", "postgres"} =>
                   get_configuration(backend, fields) = fields)
    /\ [][(lastOp'.op \in {"setitem", "getitem"} /\ lastOp'.key \notin KeysOf(backend)) =>
             (objErr'.type = "ValueError" /\ fields' = fields)]_vars

C15_Witness ==
    /\ lastOp.op = "setitem"
    /\ lastOp.key = UnknownName
    /\ objErr = ValueError("The key is not valid", UnknownName)
    /\ backend = "postgres"
    /\ fields["user"] = KwValue
    /\ DOMAIN fields = PostgresKeys

\* the length of the link up to and including the port
LenThroughPort ==
    1 + Len(ExpectedAuth) + Len(CallArgs["server"]) + Len(ExpectedPort)

\* C21 as stated: when a database name is configured the link holds it as
\* the path segment after the port and before the query string.
C21_DbnameIsPathSegment ==
    (LinkReturned /\ CallArgs["dbname"] # None) =>
        SubSeq(link.uri, LenThroughPort + 1, LenThroughPort + 1 + Len(CallArgs["dbname"]))
            = <<"/">> \o CallArgs["dbname"]

\* C21, amended: a configured database name contributes nothing to the
\* link: the link does not hold it, and it is the link of the same
\* configuration without a database name.
C21_DbnameNotInLink ==
    (LinkReturned /\ CallArgs["dbname"] # None) =>
        /\ ~HasSub(link.uri, CallArgs["dbname"])
        /\ link.uri = <<"mongodb://">> \o ExpectedAuth \o CallArgs["server"]
                         \o ExpectedPort \o ExpectedQuery(PresentQueryKeys, 1)
        /\ link = make_db_link(fields, Put(kwargs, "dbname", None))

C21_Witness ==
    /\ LinkReturned
    /\ CallArgs["dbname"] = <<"testdb">>
    /\ CallArgs["port"] = <<"27017">>
    /\ CallArgs["auth_source"] = <<"admin">>
    /\ HasSub(link.uri, <<"fake", " ", "server", ":", "27017", "/?", "authSource", "=",
                          "admin">>)

OnlyServerSet == \A k \in KEYS \ {"server"} : CallArgs[k] = None

\* C22: when the server is the only non-null field the link is the scheme
\* followed by the server as given, and nothing after it.
C22_HostOnly ==
    (LinkReturned /\ OnlyServerSet) =>
        /\ link.uri = <<"mongodb://">> \o CallArgs["server"]
        /\ link.uri[Len(link.uri)] \notin {"/", "?", "/?", ":", "@", "&"}

C22_Witness ==
    /\ LinkReturned
    /\ OnlyServerSet
    /\ kwargs = [k \in {"server"} |-> <<"localhost">>]
    /\ link.uri = <<"mongodb://", "localhost">>

\* C28: in the link of a valid configuration with a username, the first '@'
\* comes right after the credentials and right before the server as given.
C28_CredentialsEndWithAt ==
    (LinkReturned /\ CallArgs["username"] # None) =>
        \E k \in 1..Len(link.uri) :
            /\ link.uri[k] = "@"
            /\ \A j \in 1..(k - 1) : link.uri[j] # "@"
            /\ SubSeq(link.uri, k + 1, k + Len(CallArgs["server"])) = CallArgs["server"]

\* C29: a make_db_link call, returning or raising, with or without keyword
\* arguments, changes no stored field, and a call with the same keyword
\* arguments as the call before it has the same outcome.
C29_MakeDbLinkStateless ==
    /\ [][fields' = fields]_vars
    /\ [][(link # NoLink /\ kwargs' = kwargs /\ fields' = fields) => link' = link]_vars

C29_Witness ==
    /\ LinkReturned
    /\ fields["ssl"] = <<"FALSE">>
    /\ fields["username"] = None
    /\ kwargs = [k \in {"port"} |-> <<"27017">>]
    /\ HasSub(link.uri, <<"ssl", "=", "false">>)

(***************************************************************************)
(* Claims about the pauses and the termination of insert_many              *)
(***************************************************************************)
\* C26: a failure of the whole-batch insert that is not a capacity failure
\* propagates with no pause, no pause occurs when the whole-batch insert
\* succeeds, and a pause occurs only on the path of the chunked retry.
C26_PauseOnlyOnCapacityPath ==
    /\ (NonCapacityFailure /\ pc = "raised") => pauses = 0
    /\ bulkOutcome = "ok" => pauses = 0
    /\ pauses > 0 => entered

CeilDiv(a, b) == (a + b - 1) \div b
Running == pc \in {"bulk", "except", "loop", "verify"}
Ended == pc \in {"returned", "raised"}

\* C30: a call of insert_many ends; it makes one whole-batch call and, when
\* the chunked retry is entered with first failing index i and chunk size
\* c >= 1, at most ceil((n - i) / c) chunk calls, each starting after the
\* start of the one before; with chunk size 0 and off the retry path it
\* makes no chunk call.
C30_InsertManyTerminates ==
    /\ [](Running => <>Ended)
    /\ [](/\ (entered /\ batch_size >= 1) =>
                Len(ChunkCalls) <= CeilDiv(n - err_index, batch_size)
          /\ (~entered \/ batch_size = 0) => Len(calls) <= 1
          /\ \A j \in 1..(Len(ChunkCalls) - 1) : ChunkCalls[j].lo < ChunkCalls[j + 1].lo)

C30_Witness ==
    /\ pc = "returned"
    /\ entered
    /\ batch_size >= 2
    /\ Len(ChunkCalls) >= 2
    /\ Len(ChunkCalls) = CeilDiv(n - err_index, batch_size)

(***************************************************************************)
(* Claims about a failed load                                              *)
(***************************************************************************)
\* C27: when a load fails, no mapping is returned and every stored field
\* keeps the value it had before the load, also when recognized entries
\* precede the offending line.
C27_FailedLoadChangesNothing ==
    (loads >= 1 /\ cfgErr # NoError) =>
        /\ fields = prevFields
        /\ config = EmptyCfg

C27_Witness ==
    /\ loads >= 1
    /\ cfgErr # NoError
    /\ cfgErr.line = 2
    /\ LET first == TrimmedLines(file)[1]
       IN  /\ IsEntryLine(first)
           /\ HasEntryForm(first)
           /\ HasRecognizedKey(first)
           /\ ValueOf(first) # <<>>
           /\ ValueOf(first) # fields["server"]
    /\ fields = prevFields

(***************************************************************************)
(* Claims about connections                                                *)
(***************************************************************************)
\* C23: a get_connection call raises nothing; when it does not return a
\* handle it returns None and the object holds no handle.
C23_GetConnectionNeverRaises ==
    lastOp.op = "get_connection" =>
        /\ objErr = NoErr
        /\ returned # "open" => (returned = "None" /\ client = "None")

HandleHeld == client = "open"
IsPostgres == backend = "postgres" /\ Constructed

\* C24: for a PostgresDb object, is_connected is true exactly when a handle
\* is held; a new object is not connected and has issued no connect; a
\* get_connection on a connected object returns the handle held and issues
\* no connect; after close_connection, whatever the state before it, the
\* object is not connected and nothing was raised.
C24_PostgresLifecycle ==
    /\ [](IsPostgres => (is_connected(client) <=> HandleHeld))
    /\ []((IsPostgres /\ lastOp.op = "construct") =>
             (~is_connected(client) /\ connects = <<>>))
    /\ []((IsPostgres /\ lastOp.op = "close_connection") =>
             (~is_connected(client) /\ ~HandleHeld /\ objErr = NoErr))
    /\ []((IsPostgres /\ lastOp.op = "get_connection") =>
             (returned = client /\ objErr = NoErr))
    /\ [][(IsPostgres /\ HandleHeld /\ lastOp'.op = "get_connection") =>
             (client' = client /\ connects' = connects /\ returned' = client)]_vars
    /\ [][(IsPostgres /\ ~HandleHeld /\ lastOp'.op = "close_connection") =>
             (client' = client /\ objErr' = NoErr)]_vars

C24_Witness ==
    /\ IsPostgres
    /\ lastOp.op = "get_connection"
    /\ HandleHeld
    /\ returned = "open"
    /\ Len(connects) = 2

(***************************************************************************)
(* Claims about CosmosDb                                                   *)
(***************************************************************************)
\* C25: when the vendor answers NOT_FOUND, database_exists and
\* container_exists return False and delete_items returns an empty list, and
\* nothing is raised; any other HTTP failure is raised as it came.
C25_NotFoundNeverPropagates ==
    /\ (lastOp.op \in {"database_exists", "container_exists"} /\ lastOp.vendor = "NOT_FOUND")
          => (objErr = NoErr /\ returned = "False")
    /\ (lastOp.op = "delete_items" /\ lastOp.vendor = "NOT_FOUND")
          => (objErr = NoErr /\ returned = "empty list")
    /\ (lastOp.op \in {"database_exists", "container_exists", "delete_items"}
           /\ lastOp.vendor = "HTTPFailure")
          => objErr = HTTPFailure

====
